---- MODULE Spec2Model ----
(***************************************************************************)
(* A model of the zeit activity tracker: the `track` tick (work-hours and  *)
(* stop-flag gate, idle branch, screen capture, active-window locator, the *)
(* two model stages), the SQLite day-record store, and the menu bar's      *)
(* tracking state.                                                         *)
(***************************************************************************)
EXTENDS Integers, Sequences, FiniteSets, TLC

(***************************************************************************)
(* Bounds of the model.                                                    *)
(***************************************************************************)
\* how many ticks (invocations of `zeit track`) a behaviour starts
MaxTicks == 2
\* how many physical monitors mss may enumerate
MaxMonitors == 2
\* the longest --delay, in clock units
MaxDelay == 1

(***************************************************************************)
(* Time.  A datetime is a number of clock units since a Monday 00:00; a    *)
(* day has DayLen units.  weekday() is 0 for Monday .. 6 for Sunday.       *)
(***************************************************************************)
DayLen == 4
DaysPerWeek == 7

weekday(dt) == (dt \div DayLen) % DaysPerWeek
time_of_day(dt) == dt % DayLen
\* datetime.isoformat(): the stored text of a timestamp, date part and time part
isoformat(dt) == [date |-> dt \div DayLen, time |-> dt % DayLen]
\* datetime.fromisoformat()
fromisoformat(s) == s.date * DayLen + s.time
\* timestamp.strftime("%Y-%m-%d")
strftime_date(dt) == dt \div DayLen

(***************************************************************************)
(* Configuration (conf.yml): the work-hours window, in units of the day.   *)
(***************************************************************************)
work_start_hour == 1
work_end_hour == 3

\* the same with a weekday test that lets Saturday through
within_window_sat(check_time, start, end) ==
    IF weekday(check_time) > 5
    THEN FALSE
    ELSE IF time_of_day(check_time) < start \/ time_of_day(check_time) >= end
         THEN FALSE
         ELSE TRUE

\* WorkHoursConfig.is_within_work_hours, for a window [start, end)
within_window(check_time, start, end) ==
    IF weekday(check_time) > 4
    THEN FALSE
    ELSE IF time_of_day(check_time) < start \/ time_of_day(check_time) >= end
         THEN FALSE
         ELSE TRUE

\* the window every tick specification runs with
DefaultWorkHours == [work_start_hour |-> work_start_hour,
                     work_end_hour |-> work_end_hour]

(***************************************************************************)
(* Activities.                                                             *)
(***************************************************************************)
PersonalLabels ==
    {"personal_browsing", "social_media", "youtube_entertainment",
     "personal_email", "personal_ai_use", "personal_finances",
     "professional_development", "online_shopping", "personal_calendar",
     "entertainment"}
WorkLabels ==
    {"slack", "work_email", "zoom_meeting", "work_coding", "work_browsing",
     "work_calendar"}
\* class Activity: what the classifier may answer
Activity == PersonalLabels \cup WorkLabels
IDLE == "idle"
\* class ExtendedActivity
ExtendedActivity == Activity \cup {IDLE}

\* the absent value of an optional field
None == "None"

(***************************************************************************)
(* Idle detection.  The outcome of the ioreg query is an input: the kinds  *)
(* of failure, or the idle time.  HIDIdleTime / 1e9 is compared with a     *)
(* whole number of seconds, so its whole part decides the comparison and   *)
(* the model keeps idle times in whole seconds.                            *)
(***************************************************************************)
DEFAULT_IDLE_THRESHOLD == 300

IoregOutcomes ==
    {[kind |-> "timeout", seconds |-> 0],
     [kind |-> "failed", seconds |-> 0],
     [kind |-> "missing", seconds |-> 0],
     [kind |-> "unparsable", seconds |-> 0]}
    \cup {[kind |-> "ok", seconds |-> s] :
             s \in {DEFAULT_IDLE_THRESHOLD - 1, DEFAULT_IDLE_THRESHOLD,
                    DEFAULT_IDLE_THRESHOLD + 1}}

\* get_idle_time_seconds(): None unless the query gave a value
get_idle_time_seconds(q) == IF q.kind = "ok" THEN q.seconds ELSE -1
NoIdleTime == -1

\* is_system_idle with a strict comparison
is_system_idle_strict(q, threshold_seconds) ==
    LET idle_time == get_idle_time_seconds(q) IN
    IF idle_time = NoIdleTime THEN FALSE ELSE idle_time > threshold_seconds

\* is_system_idle that takes an unknown idle time for an idle system
is_system_idle_fail_closed(q, threshold_seconds) ==
    LET idle_time == get_idle_time_seconds(q) IN
    IF idle_time = NoIdleTime THEN TRUE ELSE idle_time >= threshold_seconds

\* is_system_idle(threshold_seconds)
is_system_idle(q, threshold_seconds) ==
    LET idle_time == get_idle_time_seconds(q) IN
    IF idle_time = NoIdleTime THEN FALSE ELSE idle_time >= threshold_seconds

(***************************************************************************)
(* The active-window locator.  Displays are laid side by side, each        *)
(* DisplaySize wide and high, in mss enumeration order.                    *)
(***************************************************************************)
DisplaySize == 2

\* get_mss_monitors(): the bounds of the n physical monitors
get_mss_monitors(n) ==
    [i \in 1..n |-> [x |-> (i - 1) * DisplaySize, y |-> 0,
                     width |-> DisplaySize, height |-> DisplaySize]]

\* the frontmost-window query: a failure, or the window's bounds
WindowQueries ==
    {[kind |-> k, x |-> 0, y |-> 0, width |-> 1, height |-> 1] :
        k \in {"failed", "timeout", "unparsable"}}
    \cup {[kind |-> "ok", x |-> x, y |-> y, width |-> w, height |-> h] :
            x \in -3..(MaxMonitors * DisplaySize), y \in -1..DisplaySize,
            w \in {1, 2 * DisplaySize}, h \in {1, 2 * DisplaySize}}

\* _point_in_display
_point_in_display(x, y, display) ==
    /\ display.x <= x /\ x < display.x + display.width
    /\ display.y <= y /\ y < display.y + display.height

\* enumerate(displays): the first 0-based index holding the point, -1 for none
first_display(x, y, displays) ==
    LET hits == {i \in 1..Len(displays) : _point_in_display(x, y, displays[i])} IN
    IF hits = {} THEN -1 ELSE (CHOOSE i \in hits : \A j \in hits : i <= j) - 1

\* _find_display_for_window trying the center before the corner
_find_display_for_window_center_first(window, displays) ==
    LET corner == first_display(window.x, window.y, displays)
        center_x == window.x + window.width \div 2
        center_y == window.y + window.height \div 2
        center == first_display(center_x, center_y, displays)
    IN IF center # -1 THEN center ELSE corner

\* _find_display_for_window: the 0-based display, -1 for the RuntimeError
_find_display_for_window(window, displays) ==
    LET corner == first_display(window.x, window.y, displays)
        center_x == window.x + window.width \div 2
        center_y == window.y + window.height \div 2
    IN IF corner # -1 THEN corner ELSE first_display(center_x, center_y, displays)

\* active_screen_hint = None
NoHint == 0
\* the result of a locator that raised RuntimeError
LocatorRaised == -1

\* get_active_screen_number(): the 1-based screen, LocatorRaised when it raises
get_active_screen_number(query, n) ==
    LET mss_monitors == get_mss_monitors(n) IN
    IF query.kind # "ok" THEN LocatorRaised
    ELSE IF Len(mss_monitors) = 0 THEN LocatorRaised
    ELSE IF Len(mss_monitors) = 1 THEN 1
    ELSE LET monitor_idx == _find_display_for_window(query, mss_monitors) IN
         IF monitor_idx = -1 THEN LocatorRaised ELSE monitor_idx + 1

\* monitors as mss may report them: in any order, side by side or mirrored
DisplayLayouts ==
    UNION {[1..n -> {[x |-> px * DisplaySize, y |-> 0,
                      width |-> DisplaySize, height |-> DisplaySize] :
                        px \in 0..(MaxMonitors - 1)}] : n \in 2..MaxMonitors}

\* get_active_screen_number once the window and the monitors are known
active_screen_on(window, mss_monitors) ==
    IF Len(mss_monitors) = 0 THEN LocatorRaised
    ELSE IF Len(mss_monitors) = 1 THEN 1
    ELSE LET monitor_idx == _find_display_for_window(window, mss_monitors) IN
         IF monitor_idx = -1 THEN LocatorRaised ELSE monitor_idx + 1

(***************************************************************************)
(* The two model stages.  A model call's response is an input.             *)
(***************************************************************************)
\* a function's None result
NoResult == [none |-> TRUE]

\* the labels the sampled classifier responses carry
SampleLabels == {"work_coding", "personal_browsing"}

\* responses of the vision model: a failed call, or text and a thinking trace
VisionResponses ==
    {[status |-> st, response |-> "text", thinking |-> "empty",
      primary_screen |-> 1, secondary_context |-> None] :
        st \in {"transport_error", "timeout"}}
    \cup {[status |-> "ok", response |-> "text", thinking |-> th,
           primary_screen |-> 1, secondary_context |-> None] :
            th \in {"empty", "invalid"}}
    \cup {[status |-> "ok", response |-> "text", thinking |-> "valid",
           primary_screen |-> ps, secondary_context |-> sc] :
            ps \in 1..MaxMonitors, sc \in {None, "context"}}

\* responses of the text model: a failed call, or a JSON answer
ClassifierResponses ==
    {[status |-> st, main_activity |-> "work_coding", reasoning |-> "because"] :
        st \in {"transport_error", "timeout"}}
    \cup {[status |-> "ok", main_activity |-> a, reasoning |-> "because"] :
            a \in SampleLabels \cup {IDLE, "not_a_label"}}

\* how a vision call over n images failed: by transport error, by timeout, or
\* (a structured request) by a payload that is missing or fails validation
vision_fault(response, n) ==
    IF response.status # "ok" THEN response.status
    ELSE IF n > 1 /\ response.thinking # "valid" THEN "schema"
    ELSE "none"

\* how a classification call failed
classifier_fault(response) ==
    IF response.status # "ok" THEN response.status
    ELSE IF response.main_activity \notin Activity THEN "schema"
    ELSE "none"

\* _describe_images that falls back to the plain text when the structured
\* payload is missing or invalid
_describe_images_fallback(screenshot_paths, active_screen_hint, response) ==
    LET is_multi_screen == Cardinality(screenshot_paths) > 1 IN
    IF response.status # "ok" THEN NoResult
    ELSE IF is_multi_screen /\ response.thinking = "valid"
         THEN [primary_screen |-> response.primary_screen,
               main_activity_description |-> response.response,
               secondary_context |-> response.secondary_context]
         ELSE [primary_screen |-> 1,
               main_activity_description |-> response.response,
               secondary_context |-> None]

\* _describe_images: the scene description, NoResult for None
_describe_images(screenshot_paths, active_screen_hint, response) ==
    LET is_multi_screen == Cardinality(screenshot_paths) > 1 IN
    IF response.status # "ok" THEN NoResult
    ELSE IF is_multi_screen
         THEN IF response.thinking = "empty" THEN NoResult
              ELSE IF response.thinking = "invalid" THEN NoResult
              ELSE [primary_screen |-> response.primary_screen,
                    main_activity_description |-> response.response,
                    secondary_context |-> response.secondary_context]
         ELSE [primary_screen |-> 1,
               main_activity_description |-> response.response,
               secondary_context |-> None]

\* a request that is structured whatever the number of images
describe_request_schema(screenshot_paths, active_screen_hint) ==
    [format |-> "schema",
     hint |-> IF active_screen_hint # NoHint THEN "template" ELSE "fallback"]

\* the request _describe_images sends: structured (with a schema) or plain text
describe_request(screenshot_paths, active_screen_hint) ==
    IF Cardinality(screenshot_paths) > 1
    THEN [format |-> "schema",
          hint |-> IF active_screen_hint # NoHint THEN "template" ELSE "fallback"]
    ELSE [format |-> "plain", hint |-> "none"]

\* _describe_activities with a default label for an answer that fails validation
_describe_activities_default(image_description, secondary_context, response) ==
    IF response.status # "ok" THEN NoResult
    ELSE IF response.main_activity \notin Activity
    THEN [main_activity |-> "personal_browsing", reasoning |-> response.reasoning]
    ELSE [main_activity |-> response.main_activity,
          reasoning |-> response.reasoning]

\* _describe_activities validating the answer against ExtendedActivity
_describe_activities_extended(image_description, secondary_context, response) ==
    IF response.status # "ok" THEN NoResult
    ELSE IF response.main_activity \notin ExtendedActivity THEN NoResult
    ELSE [main_activity |-> response.main_activity,
          reasoning |-> response.reasoning]

\* _describe_activities: the classification, NoResult for None
_describe_activities(image_description, secondary_context, response) ==
    IF response.status # "ok" THEN NoResult
    ELSE IF response.main_activity \notin Activity THEN NoResult
    ELSE [main_activity |-> response.main_activity,
          reasoning |-> response.reasoning]

(***************************************************************************)
(* Entries and day records.                                                *)
(***************************************************************************)
\* ActivityEntry.from_response
from_response(activities_response) ==
    [timestamp |-> isoformat(activities_response.timestamp),
     activity |-> activities_response.main_activity,
     reasoning |-> activities_response.reasoning]

\* ActivityEntry.idle
idle(timestamp) ==
    [timestamp |-> isoformat(timestamp), activity |-> IDLE, reasoning |-> None]

\* DayRecord.to_json: the serialized activity list
to_json(activities) ==
    [i \in 1..Len(activities) |->
        <<activities[i].timestamp, activities[i].activity, activities[i].reasoning>>]

\* DayRecord.from_db_row: the activities of a stored row
from_db_row(activities_json) ==
    [i \in 1..Len(activities_json) |->
        [timestamp |-> activities_json[i][1],
         activity |-> activities_json[i][2],
         reasoning |-> activities_json[i][3]]]

\* add_activity that puts the new entry first
add_activity_front(activities, entry) == <<entry>> \o activities

\* DayRecord.add_activity
add_activity(activities, entry) == Append(activities, entry)

(***************************************************************************)
(* Screen capture.                                                         *)
(***************************************************************************)
\* the file screenshots/screenshot_{idx}_{now}.png
screenshot_file(idx, now) == <<idx, now>>

\* _capture_all_monitors over n monitors; fail_at = k > 0: grabbing or writing
\* monitor k raises, after the files of monitors 1..k-1 were written
_capture_all_monitors(n, fail_at, now) ==
    IF fail_at = 0
    THEN [raised |-> FALSE, paths |-> 1..n,
          written |-> {screenshot_file(i, now) : i \in 1..n}]
    ELSE [raised |-> TRUE, paths |-> {},
          written |-> {screenshot_file(i, now) : i \in 1..(fail_at - 1)}]

\* MultiScreenCapture.__exit__: the files on disk after the cleanup
capture_exit(disk, screenshot_paths, now) ==
    disk \ {screenshot_file(i, now) : i \in screenshot_paths}

(***************************************************************************)
(* State.                                                                  *)
(***************************************************************************)
VARIABLES
    clock,      \* the wall clock, datetime.now()
    config,     \* the loaded work-hours configuration
    stopFlag,   \* whether config.paths.stop_flag exists
    menuFlag,   \* whether ZeitMenuBar.STOP_FLAG exists
    menuState,  \* the TrackingState the menu bar computed last
    store,      \* the rows of daily_activities, by date
    files,      \* the screenshot files on disk
    pc,         \* where each tracker process is in `track`
    tick,       \* the locals of each tracker process
    calls,      \* how often each tick invoked its collaborators
    inserted,   \* the entries for which insert_activity returned True, in order
    ticks,      \* the number of ticks started
    report      \* what the statistics views computed last from the store

vars == <<clock, config, stopFlag, menuFlag, menuState, store, files, pc, tick,
          calls, inserted, ticks, report>>

\* the processes that run `zeit track`: the launchd job's, and one a user
\* starts by hand while the first may still be running
Procs == {"p1", "p2"}

WeekLen == DaysPerWeek * DayLen

\* config.is_within_work_hours(check_time): the configured window
is_within_work_hours(check_time) ==
    within_window(check_time, config.work_start_hour, config.work_end_hour)

NoRequest == [format |-> "none", hint |-> "none"]
NoRow == [found |-> FALSE, activities |-> <<>>]
NoCalls == [capture |-> 0, locator |-> 0, stage_a |-> 0, stage_b |-> 0,
            insert |-> 0]

\* the locals of a tick that has just started
FreshTick(force) ==
    [force |-> force, idle_time |-> NoIdleTime, idle_branch |-> FALSE,
     now |-> 0, monitors |-> 0, paths |-> {}, hint |-> NoHint,
     request |-> NoRequest, description |-> NoResult, entry |-> NoResult,
     row |-> NoRow, db_now |-> 0, outcome |-> "running", exit_code |-> 0,
     fault_a |-> "none", fault_b |-> "none", db_fault |-> FALSE,
     before |-> store, created |-> {}, flag_read |-> "unread"]

\* nothing computed yet by `zeit stats`, the menu's summary, the condenser
NoReport ==
    [done |-> {}, stats |-> NoResult, summary |-> <<>>, groups |-> <<>>,
     merged |-> NoResult, located |-> NoResult, day_summary |-> NoResult]

\* TrackingState of a process that never computed one
NoState == [state |-> "none", can_toggle |-> FALSE, at |-> 0, flag |-> FALSE]

InitCommon ==
    /\ stopFlag \in BOOLEAN
    /\ menuFlag = FALSE
    /\ menuState = NoState
    /\ files = {}
    /\ pc = [p \in Procs |-> "off"]
    /\ tick = [p \in Procs |-> FreshTick(FALSE)]
    /\ calls = [p \in Procs |-> NoCalls]
    /\ ticks = 0
    /\ report = NoReport

\* the first instant of the Friday; behaviours start on Friday or Saturday
Friday == 4 * DayLen

Init ==
    /\ clock \in Friday..(Friday + 2 * DayLen - 1)
    /\ config = DefaultWorkHours
    /\ store = <<>>
    /\ inserted = <<>>
    /\ InitCommon

\* a process returns from `track` with an exit code
Finish(p, t, outcome, code) ==
    /\ pc' = [pc EXCEPT ![p] = "done"]
    /\ tick' = [tick EXCEPT ![p] = [t EXCEPT !.outcome = outcome,
                                             !.exit_code = code]]

Count(p, what) == calls' = [calls EXCEPT ![p][what] = @ + 1]

(***************************************************************************)
(* `zeit track`: one tick, as the steps of a process.                      *)
(***************************************************************************)
\* the process starts, with or without --force.  With exclusive the tick
\* starts only when no other tick is running.  The locals of processes that
\* have exited are gone.
StartTick(p, exclusive) ==
    /\ pc[p] \in {"off", "done"}
    /\ exclusive => \A q \in Procs : pc[q] \in {"off", "done"}
    /\ ticks < MaxTicks
    /\ \E force \in BOOLEAN :
         tick' = [q \in Procs |->
                    IF q = p THEN FreshTick(force)
                    ELSE IF pc[q] = "done" THEN FreshTick(FALSE) ELSE tick[q]]
    /\ pc' = [q \in Procs |->
                IF q = p THEN "gate" ELSE IF pc[q] = "done" THEN "off" ELSE pc[q]]
    /\ calls' = [q \in Procs |->
                   IF q = p \/ pc[q] = "done" THEN NoCalls ELSE calls[q]]
    /\ ticks' = ticks + 1
    /\ UNCHANGED <<clock, config, stopFlag, menuFlag, menuState, store, files,
                   inserted>>
    /\ UNCHANGED report

\* the gate without its stop-flag check
gate_decision_no_flag(force, now, flag) ==
    IF ~force /\ ~is_within_work_hours(now) THEN "outside_work_hours"
    ELSE "proceed"

\* the decision of the gate: skip for work hours, skip for the flag, or go on
gate_decision(force, now, flag) ==
    IF ~force /\ ~is_within_work_hours(now) THEN "outside_work_hours"
    ELSE IF ~force /\ flag THEN "stop_flag"
    ELSE "proceed"

\* what stop_flag.exists() returned, when the gate got as far as calling it
stop_flag_exists(force, now, flag) ==
    IF force \/ ~is_within_work_hours(now) THEN "unread"
    ELSE IF flag THEN "present" ELSE "absent"

\* the work-hours check, the stop-flag check and the optional delay
Gate(p) ==
    /\ pc[p] = "gate"
    /\ LET decision == gate_decision(tick[p].force, clock, stopFlag)
           t == [tick[p] EXCEPT
                   !.flag_read = stop_flag_exists(tick[p].force, clock, stopFlag)]
       IN
       IF decision # "proceed"
       THEN /\ Finish(p, t, decision, 0)
            /\ UNCHANGED clock
       ELSE /\ \E delay \in 0..MaxDelay : clock' = clock + delay
            /\ pc' = [pc EXCEPT ![p] = "idle_check"]
            /\ tick' = [tick EXCEPT ![p] = t]
    /\ UNCHANGED <<config, stopFlag, menuFlag, menuState, store, files, calls,
                   inserted, ticks>>
    /\ UNCHANGED report

\* an idle check that looks at the stop flag again, after the delay
IdleCheck_after_flag(p) ==
    /\ pc[p] = "idle_check"
    /\ IF ~tick[p].force /\ stopFlag
       THEN /\ Finish(p, tick[p], "stop_flag", 0)
            /\ UNCHANGED clock
       ELSE \E q \in IoregOutcomes :
         IF is_system_idle(q, DEFAULT_IDLE_THRESHOLD)
         THEN /\ tick' = [tick EXCEPT ![p].idle_time = get_idle_time_seconds(q),
                                      ![p].idle_branch = TRUE,
                                      ![p].entry = idle(clock)]
              /\ clock' = clock + 1
              /\ pc' = [pc EXCEPT ![p] = "insert_select"]
         ELSE /\ tick' = [tick EXCEPT ![p].idle_time = get_idle_time_seconds(q)]
              /\ clock' = clock
              /\ pc' = [pc EXCEPT ![p] = "capture"]
    /\ UNCHANGED <<config, stopFlag, menuFlag, menuState, store, files, calls,
                   inserted, ticks>>
    /\ UNCHANGED report

\* an idle check whose result a forced tick ignores
IdleCheck_forced_active(p) ==
    /\ pc[p] = "idle_check"
    /\ \E q \in IoregOutcomes :
         IF ~tick[p].force /\ is_system_idle(q, DEFAULT_IDLE_THRESHOLD)
         THEN /\ tick' = [tick EXCEPT ![p].idle_time = get_idle_time_seconds(q),
                                      ![p].idle_branch = TRUE,
                                      ![p].entry = idle(clock)]
              /\ clock' = clock + 1
              /\ pc' = [pc EXCEPT ![p] = "insert_select"]
         ELSE /\ tick' = [tick EXCEPT ![p].idle_time = get_idle_time_seconds(q)]
              /\ clock' = clock
              /\ pc' = [pc EXCEPT ![p] = "capture"]
    /\ UNCHANGED <<config, stopFlag, menuFlag, menuState, store, files, calls,
                   inserted, ticks>>
    /\ UNCHANGED report

\* the idle check; an idle system gets an IDLE entry stamped now
IdleCheck(p) ==
    /\ pc[p] = "idle_check"
    /\ \E q \in IoregOutcomes :
         IF is_system_idle(q, DEFAULT_IDLE_THRESHOLD)
         THEN /\ tick' = [tick EXCEPT ![p].idle_time = get_idle_time_seconds(q),
                                      ![p].idle_branch = TRUE,
                                      ![p].entry = idle(clock)]
              /\ clock' = clock + 1
              /\ pc' = [pc EXCEPT ![p] = "insert_select"]
         ELSE /\ tick' = [tick EXCEPT ![p].idle_time = get_idle_time_seconds(q)]
              /\ clock' = clock
              /\ pc' = [pc EXCEPT ![p] = "capture"]
    /\ UNCHANGED <<config, stopFlag, menuFlag, menuState, store, files, calls,
                   inserted, ticks>>
    /\ UNCHANGED report

\* take_screenshot_and_describe reads now and enters MultiScreenCapture; an
\* exception of __enter__ leaves the with statement without __exit__
Capture(p, monitor_counts) ==
    /\ pc[p] = "capture"
    /\ \E n \in monitor_counts, fail_at \in 0..MaxMonitors :
         /\ fail_at <= n
         /\ LET now == clock
                shot == _capture_all_monitors(n, fail_at, now)
                t == [tick[p] EXCEPT !.now = now, !.monitors = n,
                                     !.paths = shot.paths,
                                     !.created = shot.written,
                                     !.idle_time = NoIdleTime]
            IN /\ files' = files \cup shot.written
               /\ IF shot.raised
                  THEN Finish(p, t, "capture_error", 1)
                  ELSE /\ tick' = [tick EXCEPT ![p] = t]
                       /\ pc' = [pc EXCEPT ![p] =
                                   IF Cardinality(shot.paths) > 1
                                   THEN "locate" ELSE "stage_a"]
    /\ clock' = clock + 1
    /\ Count(p, "capture")
    /\ UNCHANGED <<config, stopFlag, menuFlag, menuState, store, inserted,
                   ticks>>
    /\ UNCHANGED report

\* with more than one screenshot the locator is asked for a hint; its
\* RuntimeError is not caught: it unwinds the with statement and ends track
Locate(p) ==
    /\ pc[p] = "locate"
    /\ \E query \in WindowQueries :
         LET got == get_active_screen_number(query, tick[p].monitors) IN
         IF got = LocatorRaised
         THEN /\ files' = capture_exit(files, tick[p].paths, tick[p].now)
              /\ Finish(p, [tick[p] EXCEPT !.paths = {}], "locator_error", 1)
         ELSE /\ files' = files
              /\ tick' = [tick EXCEPT ![p].hint = got]
              /\ pc' = [pc EXCEPT ![p] = "stage_a"]
    /\ Count(p, "locator")
    /\ UNCHANGED <<clock, config, stopFlag, menuFlag, menuState, store,
                   inserted, ticks>>
    /\ UNCHANGED report

\* Stage A inside the with statement, then __exit__, then the None check
StageA(p) ==
    /\ pc[p] = "stage_a"
    /\ \E response \in VisionResponses :
         LET t == tick[p]
             screen_description == _describe_images(t.paths, t.hint, response)
             sent == describe_request(t.paths, t.hint)
             t2 == [t EXCEPT !.description = screen_description,
                             !.request = sent, !.paths = {}, !.hint = NoHint,
                             !.fault_a = vision_fault(response, Cardinality(t.paths))]
         IN IF screen_description = NoResult
            THEN Finish(p, t2, "describe_failed", 1)
            ELSE /\ tick' = [tick EXCEPT ![p] = t2]
                 /\ pc' = [pc EXCEPT ![p] = "stage_b"]
    /\ files' = capture_exit(files, tick[p].paths, tick[p].now)
    /\ Count(p, "stage_a")
    /\ UNCHANGED <<clock, config, stopFlag, menuFlag, menuState, store,
                   inserted, ticks>>
    /\ UNCHANGED report

\* Stage B stamping the entry with the time at which classification completes
StageB_stamp_at_end(p) ==
    /\ pc[p] = "stage_b"
    /\ \E response \in ClassifierResponses :
         LET t == [tick[p] EXCEPT !.fault_b = classifier_fault(response)]
             activities_response ==
                 _describe_activities(t.description.main_activity_description,
                                      t.description.secondary_context, response)
         IN IF activities_response = NoResult
            THEN Finish(p, [t EXCEPT !.description = NoResult], "classify_failed", 1)
            ELSE /\ tick' = [tick EXCEPT
                        ![p].description = NoResult,
                        ![p].fault_b = t.fault_b,
                        ![p].entry =
                        from_response([main_activity |-> activities_response.main_activity,
                                       reasoning |-> activities_response.reasoning,
                                       secondary_context |-> t.description.secondary_context,
                                       timestamp |-> clock])]
                 /\ pc' = [pc EXCEPT ![p] = "insert_select"]
    /\ Count(p, "stage_b")
    /\ UNCHANGED <<clock, config, stopFlag, menuFlag, menuState, store, files,
                   inserted, ticks>>
    /\ UNCHANGED report

\* Stage B; its answer becomes the entry, stamped with the time read at the start
StageB(p) ==
    /\ pc[p] = "stage_b"
    /\ \E response \in ClassifierResponses :
         LET t == [tick[p] EXCEPT !.fault_b = classifier_fault(response)]
             activities_response ==
                 _describe_activities(t.description.main_activity_description,
                                      t.description.secondary_context, response)
         IN IF activities_response = NoResult
            THEN Finish(p, [t EXCEPT !.description = NoResult], "classify_failed", 1)
            ELSE /\ tick' = [tick EXCEPT
                        ![p].description = NoResult,
                        ![p].fault_b = t.fault_b,
                        ![p].entry =
                        from_response([main_activity |-> activities_response.main_activity,
                                       reasoning |-> activities_response.reasoning,
                                       secondary_context |-> t.description.secondary_context,
                                       timestamp |-> t.now])]
                 /\ pc' = [pc EXCEPT ![p] = "insert_select"]
    /\ Count(p, "stage_b")
    /\ UNCHANGED <<clock, config, stopFlag, menuFlag, menuState, store, files,
                   inserted, ticks>>
    /\ UNCHANGED report

(***************************************************************************)
(* DatabaseManager.insert_activity: the SELECT, then the write and commit. *)
(***************************************************************************)
\* the date the entry is filed under
entry_date(activity_entry) == strftime_date(fromisoformat(activity_entry.timestamp))

\* get_day_record: the activities of a date, NoResult for None
get_day_record(db, date_str) ==
    IF date_str \in DOMAIN db
    THEN [date |-> date_str, activities |-> from_db_row(db[date_str].activities)]
    ELSE NoResult

\* the SELECT of the day's row
InsertSelect(p) ==
    /\ pc[p] = "insert_select"
    /\ LET date_str == entry_date(tick[p].entry) IN
       tick' = [tick EXCEPT
                  ![p].db_now = clock,
                  ![p].row = IF date_str \in DOMAIN store
                             THEN [found |-> TRUE,
                                   activities |-> store[date_str].activities]
                             ELSE NoRow]
    /\ pc' = [pc EXCEPT ![p] = "insert_write"]
    /\ UNCHANGED <<clock, config, stopFlag, menuFlag, menuState, store, files,
                   calls, inserted, ticks>>
    /\ UNCHANGED report

\* insert_activity appending to the row as it is at the write, not as read
insert_write_fresh(db, row, activity_entry, now, fault) ==
    LET date_str == entry_date(activity_entry) IN
    IF fault THEN [ok |-> FALSE, db |-> db]
    ELSE IF date_str \in DOMAIN db
    THEN [ok |-> TRUE,
          db |-> [d \in DOMAIN db |->
                    IF d = date_str
                    THEN [db[d] EXCEPT
                            !.activities = to_json(add_activity(
                                from_db_row(db[d].activities), activity_entry)),
                            !.updated_at = now]
                    ELSE db[d]]]
    ELSE [ok |-> TRUE,
          db |-> [d \in DOMAIN db \cup {date_str} |->
                    IF d = date_str
                    THEN [activities |-> to_json(add_activity(<<>>, activity_entry)),
                          created_at |-> now, updated_at |-> now]
                    ELSE db[d]]]

\* insert_activity whose failed transaction keeps what it wrote
insert_write_no_rollback(db, row, activity_entry, now, fault) ==
    LET date_str == entry_date(activity_entry)
        day_record == add_activity(from_db_row(row.activities), activity_entry)
    IN [ok |-> ~fault,
        db |-> [d \in DOMAIN db \cup {date_str} |->
                  IF d = date_str
                  THEN [activities |-> to_json(day_record),
                        created_at |-> now, updated_at |-> now]
                  ELSE db[d]]]

\* insert_activity filing the entry under the date of the write
insert_write_today(db, row, activity_entry, now, fault) ==
    LET date_str == strftime_date(now)
        stored == IF date_str \in DOMAIN db
                  THEN from_db_row(db[date_str].activities) ELSE <<>>
    IN IF fault THEN [ok |-> FALSE, db |-> db]
       ELSE [ok |-> TRUE,
             db |-> [d \in DOMAIN db \cup {date_str} |->
                       IF d = date_str
                       THEN [activities |-> to_json(add_activity(stored, activity_entry)),
                             created_at |-> now, updated_at |-> now]
                       ELSE db[d]]]

\* insert_activity whose INSERT replaces a row that appeared since the read
insert_write_replace(db, row, activity_entry, now, fault) ==
    LET date_str == entry_date(activity_entry) IN
    IF fault THEN [ok |-> FALSE, db |-> db]
    ELSE IF row.found
    THEN LET day_record == add_activity(from_db_row(row.activities), activity_entry) IN
         [ok |-> TRUE,
          db |-> [d \in DOMAIN db |->
                    IF d = date_str
                    THEN [db[d] EXCEPT !.activities = to_json(day_record),
                                       !.updated_at = now]
                    ELSE db[d]]]
    ELSE [ok |-> TRUE,
          db |-> [d \in DOMAIN db \cup {date_str} |->
                    IF d = date_str
                    THEN [activities |-> to_json(add_activity(<<>>, activity_entry)),
                          created_at |-> now, updated_at |-> now]
                    ELSE db[d]]]

\* the table after the UPDATE or INSERT of insert_activity, or the table
\* unchanged with ok = FALSE when the statement raises sqlite3.Error
insert_write(db, row, activity_entry, now, fault) ==
    LET date_str == entry_date(activity_entry) IN
    IF fault THEN [ok |-> FALSE, db |-> db]
    ELSE IF row.found
    THEN LET day_record == add_activity(from_db_row(row.activities), activity_entry) IN
         [ok |-> TRUE,
          db |-> [d \in DOMAIN db |->
                    IF d = date_str
                    THEN [db[d] EXCEPT !.activities = to_json(day_record),
                                       !.updated_at = now]
                    ELSE db[d]]]
    ELSE IF date_str \in DOMAIN db
    THEN [ok |-> FALSE, db |-> db]
    ELSE [ok |-> TRUE,
          db |-> [d \in DOMAIN db \cup {date_str} |->
                    IF d = date_str
                    THEN [activities |-> to_json(add_activity(<<>>, activity_entry)),
                          created_at |-> now, updated_at |-> now]
                    ELSE db[d]]]

\* the write and commit (or rollback), and the exit code track makes of it
InsertWrite(p) ==
    /\ pc[p] = "insert_write"
    /\ \E fault \in BOOLEAN :
         LET t == [tick[p] EXCEPT !.db_fault = fault]
             res == insert_write(store, t.row, t.entry, t.db_now, fault)
         IN /\ store' = res.db
            /\ inserted' = IF res.ok THEN Append(inserted, t.entry) ELSE inserted
            /\ IF res.ok
               THEN Finish(p, t, IF t.idle_branch THEN "idle_saved" ELSE "saved", 0)
               ELSE Finish(p, t, IF t.idle_branch THEN "idle_save_failed"
                                 ELSE "save_failed", 1)
    /\ Count(p, "insert")
    /\ UNCHANGED <<clock, config, stopFlag, menuFlag, menuState, files, ticks>>
    /\ UNCHANGED report

Step(p) ==
    \/ Gate(p)
    \/ IdleCheck(p)
    \/ Capture(p, 0..MaxMonitors)
    \/ Locate(p)
    \/ StageA(p)
    \/ StageB(p)
    \/ InsertSelect(p)
    \/ InsertWrite(p)

\* ticks one after the other, as launchd runs them
Next == StartTick("p1", TRUE) \/ Step("p1")

Spec == Init /\ [][Next]_vars

(***************************************************************************)
(* Overlapping ticks: a `zeit track` started by hand while the launchd     *)
(* tick is still running, each process running one tick, on a machine with *)
(* one monitor.  The day may already have a row, written by an earlier     *)
(* forced tick that found the system idle at midnight.                     *)
(***************************************************************************)
SeedEntry == idle(Friday)
SeedStore ==
    [d \in {strftime_date(Friday)} |->
        [activities |-> to_json(<<SeedEntry>>),
         created_at |-> Friday + 1, updated_at |-> Friday + 1]]

StepOverlap(p) ==
    \/ Gate(p)
    \/ IdleCheck(p)
    \/ Capture(p, {1})
    \/ StageA(p)
    \/ StageB(p)
    \/ InsertSelect(p)
    \/ InsertWrite(p)

NextOverlap ==
    \E p \in Procs : (pc[p] = "off" /\ StartTick(p, FALSE)) \/ StepOverlap(p)

InitOverlap ==
    /\ clock = Friday + work_start_hour
    /\ config = DefaultWorkHours
    /\ \/ store = <<>> /\ inserted = <<>>
       \/ store = SeedStore /\ inserted = <<SeedEntry>>
    /\ InitCommon

SpecOverlap == InitOverlap /\ [][NextOverlap]_vars

(***************************************************************************)
(* The menu bar and `zeit service stop/start`.                             *)
(***************************************************************************)
\* ZeitMenuBar.get_tracking_state, from the clock and STOP_FLAG.exists()
get_tracking_state(now, manually_stopped) ==
    LET within_work_hours == is_within_work_hours(now) IN
    IF ~within_work_hours
    THEN [state |-> "not_within_work_hours", can_toggle |-> FALSE]
    ELSE IF manually_stopped
    THEN [state |-> "paused_manual", can_toggle |-> TRUE]
    ELSE [state |-> "active", can_toggle |-> TRUE]

\* what update_menu shows: the state, and the instant and flag it was made from
menu_of(now, flag) ==
    LET ts == get_tracking_state(now, flag) IN
    [state |-> ts.state, can_toggle |-> ts.can_toggle, at |-> now, flag |-> flag]

\* the timer's update_menu
UpdateMenu ==
    /\ menuState' = menu_of(clock, menuFlag)
    /\ menuState' # menuState
    /\ UNCHANGED <<clock, config, stopFlag, menuFlag, store, files, pc, tick,
                   calls, inserted, ticks>>
    /\ UNCHANGED report

\* a toggle that does not look at the work hours
toggle_flag_always(now, flag) ==
    IF ~flag THEN TRUE ELSE FALSE

\* STOP_FLAG after toggle_tracking
toggle_flag(now, flag) ==
    IF ~is_within_work_hours(now) THEN flag
    ELSE IF ~flag THEN TRUE ELSE FALSE

\* ZeitMenuBar.toggle_tracking; within work hours it ends with update_menu
ToggleTracking ==
    /\ menuFlag' = toggle_flag(clock, menuFlag)
    /\ menuState' = IF is_within_work_hours(clock)
                    THEN menu_of(clock, menuFlag') ELSE menuState
    /\ <<menuFlag', menuState'>> # <<menuFlag, menuState>>
    /\ UNCHANGED <<clock, config, stopFlag, store, files, pc, tick, calls,
                   inserted, ticks>>
    /\ UNCHANGED report

\* `zeit service stop`
ServiceStop ==
    /\ ~stopFlag
    /\ stopFlag' = TRUE
    /\ UNCHANGED <<clock, config, menuFlag, menuState, store, files, pc, tick,
                   calls, inserted, ticks>>
    /\ UNCHANGED report

\* `zeit service start`
ServiceStart ==
    /\ stopFlag
    /\ stopFlag' = FALSE
    /\ UNCHANGED <<clock, config, menuFlag, menuState, store, files, pc, tick,
                   calls, inserted, ticks>>
    /\ UNCHANGED report

\* time passes, up to the end of the week
TimePasses ==
    /\ clock < WeekLen
    /\ clock' = clock + 1
    /\ UNCHANGED <<config, stopFlag, menuFlag, menuState, store, files, pc,
                   tick, calls, inserted, ticks>>
    /\ UNCHANGED report

\* every work-hours window of whole units, the empty ones too
WorkHoursConfigs ==
    {[work_start_hour |-> a, work_end_hour |-> b] : a \in 0..DayLen, b \in 0..DayLen}

InitGate ==
    /\ clock \in 0..(WeekLen - 1)
    /\ config \in WorkHoursConfigs
    /\ store = <<>>
    /\ inserted = <<>>
    /\ InitCommon

NextGate ==
    \/ UpdateMenu
    \/ ToggleTracking
    \/ ServiceStop
    \/ ServiceStart
    \/ TimePasses

SpecGate == InitGate /\ [][NextGate]_vars

(***************************************************************************)
(* Statistics and condensation of a day's entries.  A percentage is kept   *)
(* exactly, as the fraction count * 100 / total.                           *)
(***************************************************************************)
PERSONAL_ACTIVITIES ==
    {"personal_browsing", "social_media", "youtube_entertainment",
     "personal_email", "personal_ai_use", "personal_finances",
     "professional_development", "online_shopping", "personal_calendar",
     "entertainment"}
WORK_ACTIVITIES ==
    {"slack", "work_email", "zoom_meeting", "work_coding", "work_browsing",
     "work_calendar"}

\* ExtendedActivity.is_work_activity
is_work_activity(activity) ==
    activity \in {"slack", "work_email", "zoom_meeting", "work_coding",
                  "work_browsing", "work_calendar"}

\* get_activity_category with two categories only
get_activity_category_binary(activity) ==
    IF activity \in WORK_ACTIVITIES THEN "work" ELSE "personal"

\* get_activity_category
get_activity_category(activity) ==
    IF activity \in WORK_ACTIVITIES THEN "work"
    ELSE IF activity \in PERSONAL_ACTIVITIES THEN "personal"
    ELSE "system"

\* (count / total) * 100
percentage_of(count, total) == [num |-> count * 100, den |-> total]

\* the float 0.0
ZeroPercentage == [num |-> 0, den |-> 1]

\* the keys of the counting dict, in insertion order: first occurrences
RECURSIVE dict_keys(_, _)
dict_keys(entries, seen) ==
    IF entries = <<>> THEN <<>>
    ELSE IF Head(entries).activity \in seen
         THEN dict_keys(Tail(entries), seen)
         ELSE <<Head(entries).activity>>
              \o dict_keys(Tail(entries), seen \cup {Head(entries).activity})

\* the counting loop: counts[activity] = counts.get(activity, 0) + 1
count_items(entries) ==
    LET keys == dict_keys(entries, {}) IN
    [k \in 1..Len(keys) |->
        [activity |-> keys[k],
         count |-> Cardinality({i \in 1..Len(entries) :
                                   entries[i].activity = keys[k]})]]

\* list.sort / sorted with key -count: stable, larger counts first
RECURSIVE insert_sorted(_, _)
insert_sorted(sorted, item) ==
    IF sorted = <<>> THEN <<item>>
    ELSE IF Head(sorted).count >= item.count
         THEN <<Head(sorted)>> \o insert_sorted(Tail(sorted), item)
         ELSE <<item>> \o sorted

RECURSIVE sort_by_count(_, _)
sort_by_count(items, sorted) ==
    IF items = <<>> THEN sorted
    ELSE sort_by_count(Tail(items), insert_sorted(sorted, Head(items)))

\* the sum of the counts of the items of one category
RECURSIVE category_count(_, _)
category_count(items, category) ==
    IF items = <<>> THEN 0
    ELSE (IF get_activity_category(Head(items).activity) = category
          THEN Head(items).count ELSE 0)
         + category_count(Tail(items), category)

\* compute_day_stats
compute_day_stats(date_str, entries) ==
    LET total == Len(entries) IN
    IF total = 0
    THEN [date |-> date_str, total_samples |-> 0, activities |-> <<>>,
          work_percentage |-> ZeroPercentage,
          personal_percentage |-> ZeroPercentage,
          idle_percentage |-> ZeroPercentage,
          work_count |-> 0, personal_count |-> 0, idle_count |-> 0]
    ELSE LET counts == count_items(entries)
             activity_stats ==
                 [k \in 1..Len(counts) |->
                    [activity |-> counts[k].activity,
                     count |-> counts[k].count,
                     percentage |-> percentage_of(counts[k].count, total),
                     category |-> get_activity_category(counts[k].activity)]]
             work_count == category_count(counts, "work")
             personal_count == category_count(counts, "personal")
             idle_count == category_count(counts, "system")
         IN [date |-> date_str, total_samples |-> total,
             activities |-> sort_by_count(activity_stats, <<>>),
             work_percentage |-> percentage_of(work_count, total),
             personal_percentage |-> percentage_of(personal_count, total),
             idle_percentage |-> percentage_of(idle_count, total),
             work_count |-> work_count, personal_count |-> personal_count,
             idle_count |-> idle_count]

\* get_day_stats: NoResult for None
get_day_stats(db, date_str) ==
    LET day_record == get_day_record(db, date_str) IN
    IF day_record = NoResult THEN NoResult
    ELSE compute_day_stats(date_str, day_record.activities)

\* compute_summary with IDLE left in the denominator
compute_summary_all(entries) ==
    LET summary == count_items(SelectSeq(entries, LAMBDA e : e.activity # IDLE))
        sorted_summary == sort_by_count(summary, <<>>)
        total_activities == Len(entries)
    IN IF total_activities = 0 THEN <<>>
       ELSE [k \in 1..Len(sorted_summary) |->
               [activity |-> sorted_summary[k].activity,
                percentage |-> percentage_of(sorted_summary[k].count,
                                             total_activities)]]

\* compute_summary
compute_summary(entries) ==
    LET summary == count_items(SelectSeq(entries, LAMBDA e : e.activity # IDLE))
        sorted_summary == sort_by_count(summary, <<>>)
        total_activities == Len(SelectSeq(entries, LAMBDA e : e.activity # IDLE))
    IN IF total_activities = 0 THEN <<>>
       ELSE [k \in 1..Len(sorted_summary) |->
               [activity |-> sorted_summary[k].activity,
                percentage |-> percentage_of(sorted_summary[k].count,
                                             total_activities)]]

\* Python's truth value of an optional string
truthy(r) == r # None /\ r # ""

\* [e.reasoning for e in entries if e.reasoning]
group_reasonings(entries) ==
    LET kept == SelectSeq(entries, LAMBDA e : truthy(e.reasoning)) IN
    [i \in 1..Len(kept) |-> kept[i].reasoning]

\* _create_group taking the duration for the minutes between start and end
_create_group_span(entries) ==
    [activity |-> entries[1].activity,
     start_time |-> fromisoformat(entries[1].timestamp),
     end_time |-> fromisoformat(entries[Len(entries)].timestamp),
     duration_minutes |-> fromisoformat(entries[Len(entries)].timestamp)
                          - fromisoformat(entries[1].timestamp),
     reasonings |-> group_reasonings(entries),
     merged_reasoning |-> None]

\* _create_group
_create_group(entries) ==
    [activity |-> entries[1].activity,
     start_time |-> fromisoformat(entries[1].timestamp),
     end_time |-> fromisoformat(entries[Len(entries)].timestamp),
     duration_minutes |-> Len(entries),
     reasonings |-> group_reasonings(entries),
     merged_reasoning |-> None]

\* the loop of group_consecutive_activities over non_idle[1:]
RECURSIVE group_loop(_, _, _)
group_loop(rest, current_entries, groups) ==
    IF rest = <<>> THEN Append(groups, _create_group(current_entries))
    ELSE LET entry == Head(rest) IN
         IF entry.activity = current_entries[1].activity
         THEN group_loop(Tail(rest), Append(current_entries, entry), groups)
         ELSE group_loop(Tail(rest), <<entry>>,
                         Append(groups, _create_group(current_entries)))

\* group_consecutive_activities without the IDLE filter
group_consecutive_activities_keep_idle(entries) ==
    IF entries = <<>> THEN <<>>
    ELSE group_loop(Tail(entries), <<Head(entries)>>, <<>>)

\* group_consecutive_activities
group_consecutive_activities(entries) ==
    LET non_idle == SelectSeq(entries, LAMBDA e : e.activity # IDLE) IN
    IF non_idle = <<>> THEN <<>>
    ELSE group_loop(Tail(non_idle), <<Head(non_idle)>>, <<>>)

(***************************************************************************)
(* The views of a stored day: `zeit stats`, the menu's summary and the     *)
(* condenser, over every day record of up to MaxEntries entries.           *)
(***************************************************************************)
\* a day holds at most one entry per instant
MaxEntries == DayLen

StatsDate == strftime_date(Friday)

\* what an entry of the day may hold besides its timestamp
EntryKinds ==
    {[activity |-> a, reasoning |-> r] :
        a \in SampleLabels, r \in {"because", "again", ""}}
    \cup {[activity |-> IDLE, reasoning |-> None]}

\* the day records of n entries, one per instant from midnight on
DayEntries(n) ==
    {[i \in 1..n |-> [timestamp |-> isoformat(Friday + i - 1),
                      activity |-> kinds[i].activity,
                      reasoning |-> kinds[i].reasoning]] :
        kinds \in [1..n -> EntryKinds]}

\* the entries of the day, <<>> without a row
StatsEntries ==
    IF StatsDate \in DOMAIN store
    THEN get_day_record(store, StatsDate).activities ELSE <<>>

InitStats ==
    /\ clock = Friday + DayLen
    /\ config = DefaultWorkHours
    /\ \E n \in 0..MaxEntries : \E entries \in DayEntries(n) :
         /\ inserted = entries
         /\ store = IF n = 0 THEN <<>>
                    ELSE [d \in {StatsDate} |->
                            [activities |-> to_json(entries),
                             created_at |-> Friday + 1,
                             updated_at |-> Friday + n]]
    /\ InitCommon

\* cmd_stats: get_day_stats of the day
CmdStats ==
    /\ "stats" \notin report.done
    /\ report' = [report EXCEPT !.done = @ \cup {"stats"},
                                !.stats = get_day_stats(store, StatsDate)]
    /\ UNCHANGED <<clock, config, stopFlag, menuFlag, menuState, store, files,
                   pc, tick, calls, inserted, ticks>>

\* the menu's compute_summary(day_record.activities)
MenuSummary ==
    /\ "summary" \notin report.done
    /\ StatsDate \in DOMAIN store
    /\ report' = [report EXCEPT !.done = @ \cup {"summary"},
                                !.summary = compute_summary(StatsEntries)]
    /\ UNCHANGED <<clock, config, stopFlag, menuFlag, menuState, store, files,
                   pc, tick, calls, inserted, ticks>>

\* the condenser's group_consecutive_activities(entries)
GroupActivities ==
    /\ "groups" \notin report.done
    /\ StatsDate \in DOMAIN store
    /\ report' = [report EXCEPT
                    !.done = @ \cup {"groups"},
                    !.groups = group_consecutive_activities(StatsEntries)]
    /\ UNCHANGED <<clock, config, stopFlag, menuFlag, menuState, store, files,
                   pc, tick, calls, inserted, ticks>>

NextStats ==
    \/ CmdStats
    \/ MenuSummary
    \/ GroupActivities

SpecStats == InitStats /\ [][NextStats]_vars

(***************************************************************************)
(* Pausing while the tracker runs: the launchd ticks of a machine with one *)
(* monitor, a menu bar whose item is clicked at any moment, and the        *)
(* service commands run at any moment.                                     *)
(***************************************************************************)
InitPause ==
    /\ clock = Friday + work_start_hour
    /\ config = DefaultWorkHours
    /\ store = <<>>
    /\ inserted = <<>>
    /\ InitCommon

NextPause ==
    \/ StartTick("p1", TRUE)
    \/ StepOverlap("p1")
    \/ ToggleTracking
    \/ ServiceStop
    \/ ServiceStart

SpecPause == InitPause /\ [][NextPause]_vars

(***************************************************************************)
(* The day summary.  summarize calls build_condensed_summary, which takes  *)
(* three arguments without defaults, with the entries alone.               *)
(***************************************************************************)
\* the parameters of build_condensed_summary, none with a default
build_condensed_summary_params == {"entries", "client", "llm"}

\* the keyword arguments of the call in summarize
summarize_call_arguments == {"entries"}

\* a Python call binds when every parameter without a default is given
call_binds(params, arguments) == params \subseteq arguments

\* the provider's generate: an exception, or a text that may be empty
GenerateResponses ==
    {[status |-> "failed", text |-> ""],
     [status |-> "ok", text |-> ""],
     [status |-> "ok", text |-> "summary"]}

NoDaySummary ==
    [raised |-> FALSE, none |-> TRUE, summary |-> "",
     start_time |-> 0, end_time |-> 0, generate_calls |-> 0]

\* DaySummarizer.summarize
summarize(activities, response) ==
    LET non_idle == SelectSeq(activities, LAMBDA a : a.activity # IDLE) IN
    IF non_idle = <<>> THEN NoDaySummary
    ELSE IF ~call_binds(build_condensed_summary_params, summarize_call_arguments)
    THEN [NoDaySummary EXCEPT !.raised = TRUE, !.none = FALSE]
    ELSE IF response.status # "ok"
    THEN [NoDaySummary EXCEPT !.generate_calls = 1]
    ELSE [raised |-> FALSE, none |-> FALSE, summary |-> response.text,
          start_time |-> fromisoformat(non_idle[1].timestamp),
          end_time |-> fromisoformat(non_idle[Len(non_idle)].timestamp),
          generate_calls |-> 1]

\* the summarize command's summarizer.summarize(day_record.activities)
Summarize ==
    /\ "day_summary" \notin report.done
    /\ \E response \in GenerateResponses :
         report' = [report EXCEPT
                      !.done = @ \cup {"day_summary"},
                      !.day_summary = [failed |-> response.status # "ok",
                                       result |-> summarize(StatsEntries, response)]]
    /\ UNCHANGED <<clock, config, stopFlag, menuFlag, menuState, store, files,
                   pc, tick, calls, inserted, ticks>>

NextSummary == Summarize

SpecSummary == InitStats /\ [][NextSummary]_vars

(***************************************************************************)
(* Functions called on inputs that do not come from the store: the merge   *)
(* of a group's reasonings, and the locator on a window and a layout.      *)
(***************************************************************************)
\* the text model's answer to the merge prompt: a failed call, or a text
MergeResponses ==
    {[status |-> "failed", response |-> ""],
     [status |-> "ok", response |-> "merged"],
     [status |-> "ok", response |-> " merged "]}

\* str.strip()
strip(text) == IF text = " merged " THEN "merged" ELSE text

\* the lists of reasonings of a group
ReasoningLists ==
    UNION {[1..n -> {"because", "again"}] : n \in 0..MaxMonitors}

\* merge_reasonings whose fallback indexes the list without looking at it
merge_reasonings_unguarded(reasonings, response) ==
    IF response.status = "ok"
    THEN [raised |-> FALSE, value |-> strip(response.response)]
    ELSE IF reasonings # <<>>
         THEN [raised |-> FALSE, value |-> reasonings[1]]
         ELSE [raised |-> TRUE, value |-> None]

\* merge_reasonings: the merged text, or the fallback of the except clause
merge_reasonings(reasonings, response) ==
    IF response.status = "ok"
    THEN [raised |-> FALSE, value |-> strip(response.response)]
    ELSE [raised |-> FALSE,
          value |-> IF reasonings # <<>> THEN reasonings[1] ELSE "No description"]

MergeReasonings ==
    /\ "merged" \notin report.done
    /\ \E reasonings \in ReasoningLists, response \in MergeResponses :
         report' = [report EXCEPT
                      !.done = @ \cup {"merged"},
                      !.merged = [reasonings |-> reasonings,
                                  failed |-> response.status # "ok",
                                  result |-> merge_reasonings(reasonings, response)]]
    /\ UNCHANGED <<clock, config, stopFlag, menuFlag, menuState, store, files,
                   pc, tick, calls, inserted, ticks>>

\* the locator on a frontmost window and the monitors mss reports
LocateWindow ==
    /\ "located" \notin report.done
    /\ \E window \in {q \in WindowQueries : q.kind = "ok"},
          displays \in DisplayLayouts :
         report' = [report EXCEPT
                      !.done = @ \cup {"located"},
                      !.located = [window |-> window, displays |-> displays,
                                   result |-> active_screen_on(window, displays)]]
    /\ UNCHANGED <<clock, config, stopFlag, menuFlag, menuState, store, files,
                   pc, tick, calls, inserted, ticks>>

InitFunctions ==
    /\ clock = Friday
    /\ config = DefaultWorkHours
    /\ store = <<>>
    /\ inserted = <<>>
    /\ InitCommon

NextFunctions ==
    \/ MergeReasonings
    \/ LocateWindow

SpecFunctions == InitFunctions /\ [][NextFunctions]_vars

(***************************************************************************)
(* Properties.                                                             *)
(***************************************************************************)
RECURSIVE CountEntries(_, _)
CountEntries(db, dates) ==
    IF dates = {} THEN 0
    ELSE LET d == CHOOSE x \in dates : TRUE IN
         Len(db[d].activities) + CountEntries(db, dates \ {d})

\* the number of entries a table holds, over all its days
TotalEntries(db) == CountEntries(db, DOMAIN db)

\* the table db with entry appended to the record of its date
WithEntry(db, entry) ==
    LET date_str == entry_date(entry) IN
    [d \in DOMAIN db \cup {date_str} |->
        IF d = date_str
        THEN IF d \in DOMAIN db
             THEN Append(from_db_row(db[d].activities), entry)
             ELSE <<entry>>
        ELSE from_db_row(db[d].activities)]

\* the activities of every day of a table
Records(db) == [d \in DOMAIN db |-> from_db_row(db[d].activities)]

Done(p) == pc[p] = "done"
Running(p) == pc[p] \notin {"off", "done"}

\* C1: a tick, whatever its outcome, grows the store by at most one entry; a
\* Stage A or Stage B call that fails by transport error, timeout or a schema
\* failure gives no result and leaves the store as it was before the tick.
C1_AtMostOneEntryPerTick ==
    \A p \in Procs :
        pc[p] # "off" =>
            /\ TotalEntries(store) <= TotalEntries(tick[p].before) + 1
            /\ TotalEntries(store) >= TotalEntries(tick[p].before)
            /\ (tick[p].fault_a # "none" \/ tick[p].fault_b # "none") =>
                  /\ Done(p)
                  /\ tick[p].entry = NoResult
                  /\ tick[p].exit_code = 1
                  /\ calls[p].insert = 0
                  /\ store = tick[p].before

\* a tick whose Stage B answer failed validation has ended
C1_Witness ==
    /\ Done("p1")
    /\ tick["p1"].fault_b = "schema"
    /\ DOMAIN tick["p1"].before # {}

\* C2: a tick without --force that finds the time outside work hours, or the
\* stop flag present, ends at once: no entry written, no capture, no locator,
\* no model call.
C2_GateSkips ==
    [][\A p \in Procs :
         (/\ pc[p] = "gate"
          /\ pc'[p] # "gate"
          /\ ~tick[p].force
          /\ (~is_within_work_hours(clock) \/ stopFlag))
         => /\ pc'[p] = "done"
            /\ tick'[p].outcome \in {"outside_work_hours", "stop_flag"}
            /\ tick'[p].exit_code = 0
            /\ tick'[p].entry = NoResult
            /\ store' = tick[p].before
            /\ files' = files
            /\ calls'[p] = NoCalls]_vars

\* an unforced tick skipped for the stop flag, within work hours
C2_Witness ==
    /\ Done("p1")
    /\ ~tick["p1"].force
    /\ tick["p1"].outcome = "stop_flag"
    /\ stopFlag
    /\ is_within_work_hours(clock)
    /\ calls["p1"] = NoCalls
    /\ store = tick["p1"].before

C4_GateState ==
    menuState # NoState =>
        LET now == menuState.at
            outside == \/ weekday(now) \in {5, 6}
                       \/ time_of_day(now) < config.work_start_hour
                       \/ time_of_day(now) >= config.work_end_hour
        IN IF outside
           THEN menuState.state = "not_within_work_hours" /\ ~menuState.can_toggle
           ELSE IF menuState.flag
           THEN menuState.state = "paused_manual" /\ menuState.can_toggle
           ELSE menuState.state = "active" /\ menuState.can_toggle

\* a Saturday inside the window's hours, with the flag present
C4_Witness ==
    /\ menuState.state = "not_within_work_hours"
    /\ menuState.flag
    /\ weekday(menuState.at) = 5
    /\ time_of_day(menuState.at) >= config.work_start_hour
    /\ time_of_day(menuState.at) < config.work_end_hour

\* the dates that have a row or a successful insert
KnownDates ==
    DOMAIN store \cup {entry_date(inserted[i]) : i \in 1..Len(inserted)}

\* the successful inserts of a date, in order
InsertedOn(d) == SelectSeq(inserted, LAMBDA e : entry_date(e) = d)

\* C5: after successful sequential inserts, starting from an empty store,
\* get_day_record of a date returns one record with exactly the entries
\* inserted for that date, in insertion order (so each insert keeps the list
\* stored before as a prefix, and leaves the records of other dates alone).
C5_SequentialInserts ==
    \A d \in KnownDates :
        get_day_record(store, d) = [date |-> d, activities |-> InsertedOn(d)]

\* two ticks have inserted into one day
C5_Witness ==
    \E d \in DOMAIN store :
        /\ Len(get_day_record(store, d).activities) = 2
        /\ Len(inserted) = 2

\* both processes have returned from a successful insert for one day, having
\* read the same stored row: both read before either wrote
BothReadThenWrote ==
    /\ Done("p1") /\ Done("p2")
    /\ tick["p1"].outcome \in {"saved", "idle_saved"}
    /\ tick["p2"].outcome \in {"saved", "idle_saved"}
    /\ tick["p1"].row.found /\ tick["p2"].row.found
    /\ tick["p1"].row = tick["p2"].row
    /\ entry_date(tick["p1"].entry) = entry_date(tick["p2"].entry)

\* C6: when two processes insert for the same existing day and both read the
\* stored list before either writes, both inserts return success and the
\* stored record holds only the later writer's entry after the list read:
\* the earlier writer's entry is overwritten.
C6_LostUpdate ==
    BothReadThenWrote =>
        LET d == entry_date(tick["p1"].entry)
            stored == from_db_row(store[d].activities)
            later == inserted[Len(inserted)]
            earlier == inserted[Len(inserted) - 1]
        IN /\ {earlier, later} = {tick["p1"].entry, tick["p2"].entry}
           /\ earlier # later
           /\ stored = Append(from_db_row(tick["p1"].row.activities), later)
           /\ \A i \in 1..Len(stored) : stored[i] # earlier

\* the interleaving happened
C6_Witness == BothReadThenWrote

\* C7 as stated: in every reachable state the entries of each day record are
\* in strictly increasing timestamp order.
C7_Chronological ==
    \A d \in DOMAIN store :
        LET a == from_db_row(store[d].activities) IN
        \A i \in 1..Len(a), j \in 1..Len(a) :
            i < j => fromisoformat(a[i].timestamp) < fromisoformat(a[j].timestamp)

\* C8 as stated: once take_screenshot_and_describe has ended, in whatever way,
\* none of the screenshot files the tick created is on disk.
C8_NoScreenshotLeft ==
    \A p \in Procs :
        pc[p] \in {"stage_b", "insert_select", "insert_write", "done"}
            => tick[p].created \cap files = {}

\* C9 as stated: a locator that cannot tell the screen does not abort the
\* tick: Stage A still runs.
C9_LocatorNeverAborts ==
    \A p \in Procs :
        (Done(p) /\ calls[p].locator > 0)
            => calls[p].stage_a > 0 /\ tick[p].outcome # "locator_error"

\* C10 as stated: a capture that finds no physical monitor aborts the tick as
\* a capture error, with no model call and no entry stored.
C10_NoMonitorAborts ==
    \A p \in Procs :
        (pc[p] # "off" /\ calls[p].capture > 0 /\ tick[p].monitors = 0)
            => /\ Done(p)
               /\ tick[p].outcome = "capture_error"
               /\ calls[p].stage_a = 0 /\ calls[p].stage_b = 0
               /\ store = tick[p].before

\* C11: on a tick with more than one image, a vision response without a
\* structured payload (an empty reasoning trace, or one that fails validation)
\* makes Stage A return no result, with no fallback description: Stage A was
\* called once, Stage B and insert never, and the store is as before the tick.
C11_NoStructuredPayload ==
    \A p \in Procs :
        tick[p].fault_a = "schema" =>
            /\ Done(p)
            /\ tick[p].outcome = "describe_failed"
            /\ tick[p].exit_code = 1
            /\ tick[p].description = NoResult
            /\ tick[p].entry = NoResult
            /\ calls[p].stage_a = 1
            /\ calls[p].stage_b = 0
            /\ calls[p].insert = 0
            /\ store = tick[p].before

\* a two-monitor tick whose vision response had no structured payload has ended
C11_Witness ==
    /\ Done("p1")
    /\ tick["p1"].monitors = 2
    /\ tick["p1"].request.format = "schema"
    /\ tick["p1"].fault_a = "schema"

\* C12: a tick that captured exactly one monitor never calls the locator, its
\* Stage A request is the plain-text one, and the scene description Stage A
\* returns has primary_screen = 1 and no secondary context.
C12_SingleMonitor ==
    \A p \in Procs :
        (pc[p] # "off" /\ calls[p].capture > 0 /\ tick[p].monitors = 1) =>
            /\ calls[p].locator = 0
            /\ calls[p].stage_a > 0 => tick[p].request = [format |-> "plain", hint |-> "none"]
            /\ pc[p] = "stage_b" =>
                  /\ tick[p].description.primary_screen = 1
                  /\ tick[p].description.secondary_context = None

\* a single-monitor tick has its scene description and waits for Stage B
C12_Witness ==
    /\ pc["p1"] = "stage_b"
    /\ tick["p1"].monitors = 1
    /\ calls["p1"].stage_a = 1

\* C13: when the transaction of insert fails, the step leaves the table (and
\* so the record of the entry's date) as it was before the call, the entry
\* does not count as saved, and the tick ends with exit code 1.
C13_FailedInsertRollsBack ==
    [][\A p \in Procs :
         (pc[p] = "insert_write" /\ pc'[p] = "done" /\ tick'[p].db_fault) =>
            /\ store' = store
            /\ inserted' = inserted
            /\ tick'[p].exit_code = 1
            /\ tick'[p].outcome \in {"save_failed", "idle_save_failed"}]_vars

\* an insert into an existing day has failed
C13_Witness ==
    /\ Done("p1")
    /\ tick["p1"].db_fault
    /\ tick["p1"].row.found
    /\ tick["p1"].exit_code = 1

\* C14: a successful insert files the entry under the date of the entry's own
\* timestamp: that day's record ends with the entry, and when the write
\* happens on another date that date's record is neither created nor changed.
C14_FiledUnderEntryDate ==
    \A p \in Procs :
        (Done(p) /\ tick[p].outcome \in {"saved", "idle_saved"}) =>
            LET e == tick[p].entry
                d == strftime_date(fromisoformat(e.timestamp))
                w == strftime_date(tick[p].db_now)
                before == tick[p].before
            IN /\ d \in DOMAIN store
               /\ LET a == from_db_row(store[d].activities) IN
                  /\ Len(a) > 0
                  /\ a[Len(a)] = e
                  /\ d \in DOMAIN before =>
                        a = Append(from_db_row(before[d].activities), e)
               /\ w # d =>
                     /\ w \in DOMAIN store <=> w \in DOMAIN before
                     /\ w \in DOMAIN store => store[w] = before[w]

\* a classified tick that started before midnight has inserted after
\* midnight, into a day that already had a record
C14_Witness ==
    /\ Done("p1")
    /\ tick["p1"].outcome = "saved"
    /\ strftime_date(tick["p1"].db_now) # entry_date(tick["p1"].entry)
    /\ entry_date(tick["p1"].entry) \in DOMAIN tick["p1"].before

\* C15: the timestamp of a stored classified entry is the instant read at the
\* start of take_screenshot_and_describe, which is earlier than the instant
\* of the insert.
C15_TimestampAtStart ==
    \A p \in Procs :
        (Done(p) /\ tick[p].outcome = "saved") =>
            LET a == from_db_row(store[entry_date(tick[p].entry)].activities) IN
            /\ tick[p].entry.timestamp = isoformat(tick[p].now)
            /\ a[Len(a)].timestamp = isoformat(tick[p].now)
            /\ tick[p].now < tick[p].db_now
            /\ \A f \in tick[p].created : f = screenshot_file(f[1], tick[p].now)

\* a classified entry has been stored
C15_Witness ==
    /\ Done("p1")
    /\ tick["p1"].outcome = "saved"
    /\ tick["p1"].monitors = 2

\* the thresholds IDLE_THRESHOLD_SECONDS is sampled at
IdleThresholds == {-1, 0, 1, DEFAULT_IDLE_THRESHOLD}

\* C16: when the idle time cannot be determined, is_system_idle is false for
\* every threshold: no tick takes the idle branch on an unknown idle time, and
\* a tick whose idle query failed goes on to capture with nothing written.
C16_IdleFailOpen ==
    /\ \A q \in IoregOutcomes, th \in IdleThresholds :
          q.kind # "ok" => ~is_system_idle(q, th)
    /\ \A p \in Procs :
          /\ tick[p].idle_branch => tick[p].idle_time # NoIdleTime
          /\ (pc[p] = "capture" /\ tick[p].idle_time = NoIdleTime) =>
                /\ tick[p].entry = NoResult
                /\ calls[p].insert = 0
                /\ store = tick[p].before

\* a tick whose idle query failed is about to capture
C16_Witness ==
    /\ pc["p1"] = "capture"
    /\ tick["p1"].idle_time = NoIdleTime

\* C17: every stored entry has an ExtendedActivity; a stored IDLE entry has no
\* reasoning; the entry a tick built is IDLE exactly when the tick took the
\* idle branch; the classifier's labels exclude IDLE and are all
\* ExtendedActivity values.
C17_IdleOnlyFromIdleBranch ==
    /\ Activity \subseteq ExtendedActivity \ {IDLE}
    /\ \A d \in DOMAIN store :
          LET a == from_db_row(store[d].activities) IN
          \A i \in 1..Len(a) :
              /\ a[i].activity \in ExtendedActivity
              /\ a[i].activity = IDLE => a[i].reasoning = None
    /\ \A p \in Procs :
          tick[p].entry # NoResult =>
              /\ tick[p].idle_branch <=> tick[p].entry.activity = IDLE
              /\ tick[p].idle_branch => calls[p].stage_b = 0
              /\ ~tick[p].idle_branch => tick[p].entry.activity \in Activity

\* the store holds an IDLE entry and a classified entry
C17_Witness ==
    \E d \in DOMAIN store :
        LET a == from_db_row(store[d].activities) IN
        /\ \E i \in 1..Len(a) : a[i].activity = IDLE
        /\ \E i \in 1..Len(a) : a[i].activity # IDLE

\* the entries of the day that are not IDLE
NonIdle == SelectSeq(StatsEntries, LAMBDA e : e.activity # IDLE)

\* the sum of the duration counts of the first k groups
RECURSIVE DurationsUpTo(_, _)
DurationsUpTo(groups, k) ==
    IF k = 0 THEN 0 ELSE groups[k].duration_minutes + DurationsUpTo(groups, k - 1)

\* C18: the groups are the non-IDLE entries cut, in order, into maximal runs of
\* equal activity: each group is a non-empty run of its activity, starting at
\* its first entry's timestamp and ending at its last entry's, with the run
\* length as duration; neighbouring groups differ in activity; the durations
\* sum to the number of non-IDLE entries.
C18_MaximalRuns ==
    "groups" \in report.done =>
        LET G == report.groups IN
        /\ DurationsUpTo(G, Len(G)) = Len(NonIdle)
        /\ \A k \in 1..Len(G) :
              LET first == DurationsUpTo(G, k - 1) + 1
                  last == DurationsUpTo(G, k)
              IN /\ G[k].duration_minutes >= 1
                 /\ G[k].activity # IDLE
                 /\ \A i \in first..last : NonIdle[i].activity = G[k].activity
                 /\ G[k].start_time = fromisoformat(NonIdle[first].timestamp)
                 /\ G[k].end_time = fromisoformat(NonIdle[last].timestamp)
        /\ \A k \in 1..(Len(G) - 1) : G[k].activity # G[k + 1].activity

\* a day with an IDLE entry whose activity recurs after another one: the two
\* runs are separate groups
C18_Witness ==
    /\ "groups" \in report.done
    /\ Len(StatsEntries) > Len(NonIdle)
    /\ Len(report.groups) = 3
    /\ report.groups[1].activity = report.groups[3].activity

\* a group expanded back into its run: duration-count entries of its activity,
\* the first at start_time, the others up to end_time, its reasonings in order
expand_group(g) ==
    [i \in 1..g.duration_minutes |->
        [timestamp |-> isoformat(IF i = 1 THEN g.start_time ELSE g.end_time),
         activity |-> g.activity,
         reasoning |-> IF i <= Len(g.reasonings) THEN g.reasonings[i] ELSE None]]

RECURSIVE flatten_groups(_)
flatten_groups(groups) ==
    IF groups = <<>> THEN <<>>
    ELSE expand_group(Head(groups)) \o flatten_groups(Tail(groups))

\* C19: grouping the re-expanded output of group_consecutive gives the same
\* groups again.
C19_RegroupingIsStable ==
    "groups" \in report.done =>
        group_consecutive_activities(flatten_groups(report.groups)) = report.groups

\* groups of one entry and of several, one of them with fewer reasonings than
\* entries
C19_Witness ==
    /\ "groups" \in report.done
    /\ \E k \in 1..Len(report.groups) : report.groups[k].duration_minutes = 1
    /\ \E k \in 1..Len(report.groups) :
          /\ report.groups[k].duration_minutes > 1
          /\ Len(report.groups[k].reasonings) < report.groups[k].duration_minutes

\* the sum of the counts, and of the numerators of the percentages, of a list
RECURSIVE SumCounts(_)
SumCounts(stats) ==
    IF stats = <<>> THEN 0 ELSE Head(stats).count + SumCounts(Tail(stats))

RECURSIVE SumNumerators(_)
SumNumerators(stats) ==
    IF stats = <<>> THEN 0
    ELSE Head(stats).percentage.num + SumNumerators(Tail(stats))

\* C20: for a non-empty day, the counts of compute_day_stats (IDLE included)
\* sum to the number of entries and its percentages to 100; compute_summary
\* lists no IDLE and divides by the number of non-IDLE entries, so that its
\* percentages sum to 100 when there is a non-IDLE entry, and it is empty
\* when there is none.
C20_PercentagesSumTo100 ==
    /\ ("stats" \in report.done /\ Len(StatsEntries) > 0) =>
          LET A == report.stats.activities
              total == Len(StatsEntries)
          IN /\ SumCounts(A) = total
             /\ \A k \in 1..Len(A) :
                   /\ A[k].percentage.den = total
                   /\ A[k].percentage.num = A[k].count * 100
                   /\ A[k].count = Cardinality({i \in 1..total :
                                      StatsEntries[i].activity = A[k].activity})
                   /\ \A j \in 1..Len(A) : A[j].activity = A[k].activity => j = k
             /\ SumNumerators(A) = 100 * total
    /\ "summary" \in report.done =>
          LET S == report.summary
              total == Len(NonIdle)
          IN IF total = 0 THEN S = <<>>
             ELSE /\ Len(S) > 0
                  /\ \A k \in 1..Len(S) :
                        /\ S[k].activity # IDLE
                        /\ S[k].percentage.den = total
                        /\ S[k].percentage.num =
                              100 * Cardinality({i \in 1..total :
                                        NonIdle[i].activity = S[k].activity})
                        /\ \A j \in 1..Len(S) : S[j].activity = S[k].activity => j = k
                  /\ SumNumerators(S) = 100 * total

\* both breakdowns of a day with IDLE entries and two other activities
C20_Witness ==
    /\ {"stats", "summary"} \subseteq report.done
    /\ Len(report.stats.activities) = 3
    /\ Len(report.summary) = 2
    /\ report.stats.idle_count > 0

\* the entries of the day in the opposite order: the same counts per activity
RECURSIVE Reversed(_)
Reversed(entries) ==
    IF entries = <<>> THEN <<>>
    ELSE Append(Reversed(Tail(entries)), Head(entries))

\* C21 as stated: each breakdown is in non-increasing percentage order, and a
\* list with the same per-activity counts in another order of entries (here
\* the reverse order) gives the same ordered breakdown.
C21_DeterministicOrder ==
    /\ ("stats" \in report.done /\ report.stats # NoResult) =>
          LET A == report.stats.activities IN
          /\ \A k \in 1..(Len(A) - 1) : A[k].percentage.num >= A[k + 1].percentage.num
          /\ compute_day_stats(StatsDate, Reversed(StatsEntries)).activities = A
    /\ "summary" \in report.done =>
          LET S == report.summary IN
          /\ \A k \in 1..(Len(S) - 1) : S[k].percentage.num >= S[k + 1].percentage.num
          /\ compute_summary(Reversed(StatsEntries)) = S

\* C22: the work and personal sets are disjoint and cover every
\* ExtendedActivity value but IDLE; get_activity_category gives work, personal
\* or system, system for IDLE alone, and work exactly when is_work_activity
\* holds; the categories and category counts of compute_day_stats follow it.
C22_CategoryPartition ==
    /\ WORK_ACTIVITIES \cap PERSONAL_ACTIVITIES = {}
    /\ WORK_ACTIVITIES \cup PERSONAL_ACTIVITIES = ExtendedActivity \ {IDLE}
    /\ \A a \in ExtendedActivity :
          /\ get_activity_category(a) \in {"work", "personal", "system"}
          /\ get_activity_category(a) = "work" <=> is_work_activity(a)
          /\ get_activity_category(a) = "personal" <=> a \in PERSONAL_ACTIVITIES
          /\ get_activity_category(a) = "system" <=> a = IDLE
    /\ ("stats" \in report.done /\ report.stats # NoResult) =>
          LET A == report.stats.activities IN
          /\ \A k \in 1..Len(A) :
                A[k].category = "system" <=> A[k].activity = IDLE
          /\ report.stats.idle_count =
                Cardinality({i \in 1..Len(StatsEntries) :
                                StatsEntries[i].activity = IDLE})
          /\ report.stats.work_count + report.stats.personal_count
                + report.stats.idle_count = Len(StatsEntries)

\* the statistics of a day with a work, a personal and an IDLE entry
C22_Witness ==
    /\ "stats" \in report.done
    /\ report.stats # NoResult
    /\ report.stats.work_count > 0
    /\ report.stats.personal_count > 0
    /\ report.stats.idle_count > 0

\* C23 as stated: when the model call fails, merge_reasonings raises nothing
\* and returns the first reasoning of the list, for every list.
C23_FallbackIsFirstReasoning ==
    ("merged" \in report.done /\ report.merged.failed) =>
        /\ ~report.merged.result.raised
        /\ Len(report.merged.reasonings) >= 1
        /\ report.merged.result.value = report.merged.reasonings[1]

\* C23: when the model call fails, merge_reasonings raises nothing; it returns
\* the first reasoning of a non-empty list unchanged, and the text
\* "No description" for the empty list.
C23_Fallback ==
    ("merged" \in report.done /\ report.merged.failed) =>
        /\ ~report.merged.result.raised
        /\ report.merged.reasonings # <<>> =>
              report.merged.result.value = report.merged.reasonings[1]
        /\ report.merged.reasonings = <<>> =>
              report.merged.result.value = "No description"

\* the model call failed on two different reasonings: the first comes back
C23_Witness ==
    /\ "merged" \in report.done
    /\ report.merged.failed
    /\ Len(report.merged.reasonings) = 2
    /\ report.merged.reasonings[1] # report.merged.reasonings[2]
    /\ report.merged.result = [raised |-> FALSE, value |-> report.merged.reasonings[1]]

\* the 1-based indexes of the monitors whose half-open bounds hold the point
MonitorsHolding(x, y, displays) ==
    {i \in 1..Len(displays) :
        /\ displays[i].x <= x /\ x < displays[i].x + displays[i].width
        /\ displays[i].y <= y /\ y < displays[i].y + displays[i].height}

Lowest(S) == CHOOSE i \in S : \A j \in S : i <= j

\* C26: with several monitors the locator returns the lowest 1-based index of
\* a monitor holding the window's top-left corner; only when no monitor holds
\* the corner, the lowest index of a monitor holding the window's center.
C26_CornerThenCenter ==
    "located" \in report.done =>
        LET w == report.located.window
            displays == report.located.displays
            corner == MonitorsHolding(w.x, w.y, displays)
            center == MonitorsHolding(w.x + w.width \div 2,
                                      w.y + w.height \div 2, displays)
        IN IF corner # {} THEN report.located.result = Lowest(corner)
           ELSE IF center # {} THEN report.located.result = Lowest(center)
           ELSE report.located.result = LocatorRaised

\* the corner is on monitor 2 and the center on monitor 1: the answer is 2
C26_Witness ==
    /\ "located" \in report.done
    /\ LET w == report.located.window
           displays == report.located.displays
       IN /\ MonitorsHolding(w.x, w.y, displays) = {2}
          /\ 1 \in MonitorsHolding(w.x + w.width \div 2,
                                    w.y + w.height \div 2, displays)
    /\ report.located.result = 2

\* C24: summarize raises nothing; it returns None without a model call for a
\* day with no non-IDLE entry, None when the generation call fails, and
\* otherwise a summary from the first to the last non-IDLE entry's timestamp.
C24_SummaryOrAbsence ==
    "day_summary" \in report.done =>
        LET r == report.day_summary.result IN
        /\ ~r.raised
        /\ NonIdle = <<>> => (r.none /\ r.generate_calls = 0)
        /\ (NonIdle # <<>> /\ report.day_summary.failed) => r.none
        /\ (NonIdle # <<>> /\ ~report.day_summary.failed) =>
              /\ ~r.none
              /\ r.start_time = fromisoformat(NonIdle[1].timestamp)
              /\ r.end_time = fromisoformat(NonIdle[Len(NonIdle)].timestamp)

\* C25: the stop flag is read once, at the gate.  A tick is skipped for the
\* flag exactly when the gate found it present, and then it has called nothing
\* and stored nothing, whatever the flag is now; a tick for which the gate
\* found it absent is never ended by the flag, and what it saved stays saved.
C25_ReadOnce ==
    \A p \in Procs : pc[p] \notin {"off", "gate"} =>
        /\ tick[p].outcome = "stop_flag" <=> tick[p].flag_read = "present"
        /\ tick[p].flag_read = "present" =>
              /\ pc[p] = "done"
              /\ calls[p] = NoCalls
              /\ tick[p].entry = NoResult
        /\ tick[p].flag_read = "unread" <=>
              (tick[p].force \/ tick[p].outcome = "outside_work_hours")
        /\ tick[p].outcome \in {"saved", "idle_saved"} =>
              \E i \in 1..Len(inserted) : inserted[i] = tick[p].entry

\* a tick without --force that found the flag absent has saved its entry, and
\* the flag is present
C25_Witness ==
    /\ pc["p1"] = "done"
    /\ ~tick["p1"].force
    /\ tick["p1"].flag_read = "absent"
    /\ tick["p1"].outcome = "saved"
    /\ stopFlag

\* C29: once toggle_tracking has paused tracking and the menu bar shows the
\* manual pause, a tick without --force within work hours does not pass the
\* gate.
C29_PauseStopsTicks ==
    [][(/\ pc["p1"] = "gate"
        /\ ~tick["p1"].force
        /\ is_within_work_hours(clock)
        /\ menuFlag
        /\ menuState.state = "paused_manual")
       => pc'["p1"] \in {"gate", "done"}]_vars

BothFoundNoRow ==
    /\ Done("p1") /\ Done("p2")
    /\ calls["p1"].insert = 1 /\ calls["p2"].insert = 1
    /\ ~tick["p1"].row.found /\ ~tick["p2"].row.found
    /\ ~tick["p1"].db_fault /\ ~tick["p2"].db_fault
    /\ entry_date(tick["p1"].entry) = entry_date(tick["p2"].entry)

\* C30: when two processes both find no row for a day and then insert, exactly
\* one insert returns True and creates the record; the other fails on the
\* primary key, leaves the table as it is and returns False (exit 1).  The
\* record holds exactly the winner's entry, and every entry whose insert
\* returned True is in the table.
C30_FirstInsertRace ==
    BothFoundNoRow =>
        \E winner \in Procs : \E loser \in Procs \ {winner} :
            LET d == entry_date(tick[winner].entry) IN
            /\ tick[winner].outcome \in {"saved", "idle_saved"}
            /\ tick[winner].exit_code = 0
            /\ tick[loser].outcome \in {"save_failed", "idle_save_failed"}
            /\ tick[loser].exit_code = 1
            /\ from_db_row(store[d].activities) = <<tick[winner].entry>>
            /\ inserted[Len(inserted)] = tick[winner].entry
            /\ \A i \in 1..Len(inserted) :
                  LET stored == from_db_row(store[entry_date(inserted[i])].activities)
                  IN \E j \in 1..Len(stored) : stored[j] = inserted[i]

\* the race happened, with two different entries
C30_Witness ==
    /\ BothFoundNoRow
    /\ tick["p1"].entry # tick["p2"].entry
    /\ tick["p2"].outcome = "saved"
    /\ tick["p1"].outcome \in {"save_failed", "idle_save_failed"}

====
